---- MODULE Spec2Model ----
(***************************************************************************)
(* A model of the line calculator of src/src/calc.cpp and src/src/main.cpp *)
(*                                                                         *)
(* A line is a sequence of one-character strings.  A double is modelled    *)
(* bit-exactly as an IEEE-754 binary64 value: a record with a sign, an     *)
(* odd (or zero) mantissa and a binary exponent, or one of the special     *)
(* values infinity and NaN.  Mantissas need 53 bits, so they are kept as   *)
(* little-endian sequences of 15-bit limbs.  +, -, *, /, sqrt and          *)
(* remainder are correctly rounded (round to nearest, ties to even), as    *)
(* IEEE-754 requires of them.  The results of the libm calls sin, cos,     *)
(* tan, asin, acos, atan and pow are fixed by C only for a few arguments:  *)
(* every other call returns a value the environment chooses from           *)
(* LibmValues.                                                             *)
(***************************************************************************)
EXTENDS Integers, Sequences, FiniteSets, TLC

(***************************************************************************)
(* With(v, F) is F(v) with v evaluated once: TLC evaluates a LET           *)
(* definition wherever it is used, a bound variable only where it is bound. *)
(***************************************************************************)
With(v, F(_)) == CHOOSE r \in {F(x) : x \in {v}} : TRUE

(***************************************************************************)
(* Natural numbers of any size: little-endian limbs, no leading zero limb. *)
(***************************************************************************)
LimbBits == 15

Base == 2^LimbBits

RECURSIVE BNorm(_)
BNorm(a) ==
  IF a = <<>> THEN a
  ELSE IF a[Len(a)] = 0 THEN BNorm(SubSeq(a, 1, Len(a) - 1))
  ELSE a

BFromInt(n) ==
  BNorm(<<n % Base, (n \div Base) % Base, n \div (Base * Base)>>)

\* the limb of a at place i, 0 beyond its length
Limb(a, i) == IF i <= Len(a) THEN a[i] ELSE 0

\* a + b + c from place i on, for a carry c
RECURSIVE BAddAt(_, _, _, _)
BAddAt(a, b, i, c) ==
  IF i > Len(a) /\ i > Len(b) THEN (IF c = 0 THEN <<>> ELSE <<c>>)
  ELSE LET s == Limb(a, i) + Limb(b, i) + c
       IN  <<s % Base>> \o BAddAt(a, b, i + 1, s \div Base)

BAdd(a, b) == BAddAt(a, b, 1, 0)

\* a - b - br from place i on, for a borrow br and a >= b
RECURSIVE BSubAt(_, _, _, _)
BSubAt(a, b, i, br) ==
  IF i > Len(a) THEN <<>>
  ELSE LET d == a[i] - Limb(b, i) - br
       IN  IF d < 0 THEN <<d + Base>> \o BSubAt(a, b, i + 1, 1)
           ELSE <<d>> \o BSubAt(a, b, i + 1, 0)

BSub(a, b) == BNorm(BSubAt(a, b, 1, 0))

RECURSIVE BCmpAt(_, _, _)
BCmpAt(a, b, i) ==
  IF i = 0 THEN 0
  ELSE IF a[i] < b[i] THEN -1
  ELSE IF a[i] > b[i] THEN 1
  ELSE BCmpAt(a, b, i - 1)

\* -1, 0 or 1 as a < b, a = b, a > b
BCmp(a, b) ==
  IF Len(a) < Len(b) THEN -1
  ELSE IF Len(a) > Len(b) THEN 1
  ELSE BCmpAt(a, b, Len(a))

RECURSIVE BMulSmallAt(_, _, _, _)
BMulSmallAt(a, k, i, c) ==
  IF i > Len(a) THEN (IF c = 0 THEN <<>> ELSE <<c>>)
  ELSE LET p == a[i] * k + c
       IN  <<p % Base>> \o BMulSmallAt(a, k, i + 1, p \div Base)

\* a * k for 0 <= k < Base
BMulSmall(a, k) == IF k = 0 THEN <<>> ELSE BMulSmallAt(a, k, 1, 0)

BShlLimbs(a, n) == IF a = <<>> THEN a ELSE [i \in 1..n |-> 0] \o a

\* a * (b from place i on)
RECURSIVE BMulAt(_, _, _)
BMulAt(a, b, i) ==
  IF i > Len(b) THEN <<>>
  ELSE BAdd(BMulSmall(a, b[i]), BShlLimbs(BMulAt(a, b, i + 1), 1))

BMul(a, b) == IF a = <<>> THEN <<>> ELSE BMulAt(a, b, 1)

\* a * 2^n
BShl(a, n) == BShlLimbs(BMulSmall(a, 2^(n % LimbBits)), n \div LimbBits)

\* quotient limbs and remainder of (r * Base^i + a[1..i]) / k, 0 <= r < k < Base
RECURSIVE BDivSmallAt(_, _, _, _)
BDivSmallAt(a, k, i, r) ==
  IF i = 0 THEN [q |-> <<>>, r |-> r]
  ELSE LET t    == r * Base + a[i]
           rest == BDivSmallAt(a, k, i - 1, t % k)
       IN  [q |-> Append(rest.q, t \div k), r |-> rest.r]

BDivSmall(a, k) ==
  With(BDivSmallAt(a, k, Len(a), 0), LAMBDA d : [q |-> BNorm(d.q), r |-> d.r])

\* a \div 2^n
BShr(a, n) ==
  IF n \div LimbBits >= Len(a) THEN <<>>
  ELSE BDivSmall(SubSeq(a, n \div LimbBits + 1, Len(a)), 2^(n % LimbBits)).q

RECURSIVE BitLenSmall(_)
BitLenSmall(x) == IF x = 0 THEN 0 ELSE 1 + BitLenSmall(x \div 2)

BBitLen(a) ==
  IF a = <<>> THEN 0 ELSE LimbBits * (Len(a) - 1) + BitLenSmall(a[Len(a)])

BOdd(a) == a # <<>> /\ a[1] % 2 = 1

\* the largest q in 0..hi with q * b <= r, searched downwards from hi
RECURSIVE BQuotDigit(_, _, _)
BQuotDigit(r, b, hi) ==
  IF hi = 0 \/ BCmp(BMulSmall(b, hi), r) <= 0 THEN hi
  ELSE BQuotDigit(r, b, hi - 1)

\* an upper estimate of r \div b from the leading limbs, at most 2 too large
\* when the leading limb of b is at least Base \div 2
BQuotGuess(r, b) ==
  IF Len(r) < Len(b) THEN 0
  ELSE IF Len(r) = Len(b) THEN r[Len(b)] \div b[Len(b)]
  ELSE With((r[Len(b) + 1] * Base + r[Len(b)]) \div b[Len(b)],
            LAMBDA g : IF g > Base - 1 THEN Base - 1 ELSE g)

\* long division of (r * Base^i + a[1..i]) by b, one limb at a time, r < b
RECURSIVE BDivModAt(_, _, _, _)
BDivModAt(a, b, i, r) ==
  IF i = 0 THEN [q |-> <<>>, r |-> r]
  ELSE With(BNorm(<<a[i]>> \o r), LAMBDA t :
       With(BQuotDigit(t, b, BQuotGuess(t, b)), LAMBDA d :
       With(BDivModAt(a, b, i - 1, BSub(t, BMulSmall(b, d))), LAMBDA rest :
         [q |-> Append(rest.q, d), r |-> rest.r])))

\* quotient and remainder of a / b, b # 0: both are first scaled so that the
\* leading limb of b is at least Base \div 2
BDivMod(a, b) ==
  With(LimbBits - BitLenSmall(b[Len(b)]), LAMBDA s :
  With(BShl(a, s), LAMBDA as :
  With(BDivModAt(as, BShl(b, s), Len(as), <<>>), LAMBDA d :
    [q |-> BNorm(d.q), r |-> BShr(d.r, s)])))

\* the integer square root of a # 0 by Newton's iteration from x, which is
\* no smaller than it: the iterates fall until they reach it
RECURSIVE BSqrtFrom(_, _)
BSqrtFrom(a, x) ==
  With(BShr(BAdd(x, BDivMod(a, x).q), 1),
       LAMBDA y : IF BCmp(y, x) >= 0 THEN x ELSE BSqrtFrom(a, y))

\* the integer square root of a and whether it is exact
BSqrt(a) ==
  IF a = <<>> THEN [s |-> <<>>, exact |-> TRUE]
  ELSE With(BSqrtFrom(a, BShl(<<1>>, (BBitLen(a) + 1) \div 2)),
            LAMBDA s : [s |-> s, exact |-> BMul(s, s) = a])

\* the number written by the decimal digits ds from place i on, most
\* significant first, continuing from acc
RECURSIVE BFromDigits(_, _, _)
BFromDigits(ds, i, acc) ==
  IF i > Len(ds) THEN acc
  ELSE With(BAdd(BMulSmall(acc, 10), BFromInt(ds[i])),
            LAMBDA nxt : BFromDigits(ds, i + 1, nxt))

RECURSIVE BPow10(_)
BPow10(k) == IF k = 0 THEN <<1>> ELSE BMulSmall(BPow10(k - 1), 10)

(***************************************************************************)
(* IEEE-754 binary64.  A finite value is (-1)^s * m * 2^e with m odd (or   *)
(* zero, with e = 0), so that equal values are equal records; +0 and -0    *)
(* differ in s.  The sign and payload of a NaN are not modelled.           *)
(***************************************************************************)
Precision == 53

MinExp == -1074

MaxExp == 1024

Fin(s, m, e) == [k |-> "fin", s |-> s, m |-> m, e |-> e]

Inf(s) == [k |-> "inf", s |-> s, m |-> <<>>, e |-> 0]

NaN == [k |-> "nan", s |-> 0, m |-> <<>>, e |-> 0]

FZero(s) == Fin(s, <<>>, 0)

One == Fin(0, <<1>>, 0)

IsFin(x) == x.k = "fin"

IsNaN(x) == x.k = "nan"

IsInf(x) == x.k = "inf"

IsZero(x) == x.k = "fin" /\ x.m = <<>>

RECURSIVE TrailingZeros(_)
TrailingZeros(n) == IF n % 2 = 1 THEN 0 ELSE 1 + TrailingZeros(n \div 2)

\* the record of (-1)^s * m * 2^e: the zero low bits of m move into e
RECURSIVE Canon(_, _, _)
Canon(s, m, e) ==
  IF m = <<>> THEN FZero(s)
  ELSE IF m[1] = 0 THEN Canon(s, Tail(m), e + LimbBits)
  ELSE With(TrailingZeros(m[1]),
            LAMBDA t : Fin(s, BDivSmall(m, 2^t).q, e + t))

\* (-1)^s * m * 2^e, which needs no rounding, or infinity when it is too large
Finite(s, m, e) == IF e + BBitLen(m) > MaxExp THEN Inf(s) ELSE Canon(s, m, e)

\* the exponent of the last bit a double keeps of m * 2^e
Quantum(m, e) ==
  With(e + BBitLen(m) - Precision, LAMBDA t : IF t > MinExp THEN t ELSE MinExp)

\* whether m rounds up when its low drop bits go and keep = m \div 2^drop stays
RoundsUp(m, keep, drop) ==
  With(BCmp(BSub(m, BShl(keep, drop)), BShl(<<1>>, drop - 1)),
       LAMBDA half : half > 0 \/ (half = 0 /\ BOdd(keep)))

\* (-1)^s * m * 2^e rounded to the nearest double, ties to even
Round53(s, m, e) ==
  IF m = <<>> THEN FZero(s)
  ELSE With(Quantum(m, e), LAMBDA q :
         IF q <= e THEN Finite(s, m, e)
         ELSE With(BShr(m, q - e), LAMBDA keep :
                Finite(s,
                       IF RoundsUp(m, keep, q - e)
                       THEN BAdd(keep, <<1>>) ELSE keep,
                       q)))

\* (-1)^s * (n / d) * 2^e rounded to the nearest double, d # 0: the quotient
\* of n * 2^k by d has 56 bits or more, and one more bit says whether a
\* remainder is left
RoundQuot(s, n, d, e) ==
  IF n = <<>> THEN FZero(s)
  ELSE With(Precision + 3 + BBitLen(d) - BBitLen(n), LAMBDA gap :
       With(IF gap > 0 THEN gap ELSE 0, LAMBDA k :
       With(BDivMod(BShl(n, k), d), LAMBDA dm :
         Round53(s,
                 BAdd(BShl(dm.q, 1), IF dm.r = <<>> THEN <<>> ELSE <<1>>),
                 e - k - 1))))

\* the double a decimal literal denotes: digits ds with the last k of them
\* after the point
FromDecimal(ds, k) == RoundQuot(0, BFromDigits(ds, 1, <<>>), BPow10(k), 0)

\* the double of an int n, |n| < 2^31
FromInt(n) == Canon(IF n < 0 THEN 1 ELSE 0, BFromInt(IF n < 0 THEN -n ELSE n), 0)

\* -1, 0, 1 as |x| < |y|, |x| = |y|, |x| > |y|, for finite x and y
CmpMag(x, y) ==
  IF x.m = <<>> \/ y.m = <<>>
  THEN (IF x.m = y.m THEN 0 ELSE IF x.m = <<>> THEN -1 ELSE 1)
  ELSE IF x.e + BBitLen(x.m) < y.e + BBitLen(y.m) THEN -1
  ELSE IF x.e + BBitLen(x.m) > y.e + BBitLen(y.m) THEN 1
  ELSE IF x.e < y.e THEN BCmp(x.m, BShl(y.m, y.e - x.e))
  ELSE BCmp(BShl(x.m, x.e - y.e), y.m)

\* -1 for -infinity, 1 for +infinity, 0 for a finite value
InfSign(x) == IF IsInf(x) THEN (IF x.s = 1 THEN -1 ELSE 1) ELSE 0

\* -1, 0, 1 as x < y, x = y, x > y, for x and y that are not NaN
FCmp(x, y) ==
  IF IsInf(x) \/ IsInf(y)
  THEN (IF InfSign(x) < InfSign(y) THEN -1
        ELSE IF InfSign(x) > InfSign(y) THEN 1 ELSE 0)
  ELSE IF IsZero(x) /\ IsZero(y) THEN 0
  ELSE IF x.s # y.s THEN (IF x.s = 1 THEN -1 ELSE 1)
  ELSE With(CmpMag(x, y), LAMBDA c : IF x.s = 0 THEN c ELSE -c)

\* the comparisons of C++ on double: each is false when an operand is NaN
FLt(x, y) == ~IsNaN(x) /\ ~IsNaN(y) /\ FCmp(x, y) < 0

FLe(x, y) == ~IsNaN(x) /\ ~IsNaN(y) /\ FCmp(x, y) <= 0

FGt(x, y) == FLt(y, x)

FEq(x, y) == ~IsNaN(x) /\ ~IsNaN(y) /\ FCmp(x, y) = 0

FNe(x, y) == ~FEq(x, y)

\* -x
FNeg(x) == IF IsNaN(x) THEN x ELSE [x EXCEPT !.s = 1 - x.s]

\* std::abs
FAbs(x) == IF IsNaN(x) THEN x ELSE [x EXCEPT !.s = 0]

\* x + y for finite nonzero x and y: mx and my are the mantissas at the
\* common exponent lo, c compares them
FAddAligned(x, y, mx, my, lo, c) ==
  IF x.s = y.s THEN Round53(x.s, BAdd(mx, my), lo)
  ELSE IF c = 0 THEN FZero(0)
  ELSE IF c > 0 THEN Round53(x.s, BSub(mx, my), lo)
  ELSE Round53(y.s, BSub(my, mx), lo)

\* x + y
FAdd(x, y) ==
  IF IsNaN(x) \/ IsNaN(y) THEN NaN
  ELSE IF IsInf(x) THEN (IF IsInf(y) /\ y.s # x.s THEN NaN ELSE x)
  ELSE IF IsInf(y) THEN y
  ELSE IF IsZero(x) /\ IsZero(y) THEN FZero(IF x.s = 1 /\ y.s = 1 THEN 1 ELSE 0)
  ELSE IF IsZero(x) THEN y
  ELSE IF IsZero(y) THEN x
  ELSE With(IF x.e < y.e THEN x.e ELSE y.e, LAMBDA lo :
       With(BShl(x.m, x.e - lo), LAMBDA mx :
       With(BShl(y.m, y.e - lo), LAMBDA my :
         FAddAligned(x, y, mx, my, lo, BCmp(mx, my)))))

\* x - y
FSub(x, y) == FAdd(x, FNeg(y))

\* x * y
FMul(x, y) ==
  IF IsNaN(x) \/ IsNaN(y) THEN NaN
  ELSE IF IsInf(x) \/ IsInf(y)
  THEN (IF IsZero(x) \/ IsZero(y) THEN NaN
        ELSE Inf(IF x.s = y.s THEN 0 ELSE 1))
  ELSE Round53(IF x.s = y.s THEN 0 ELSE 1, BMul(x.m, y.m), x.e + y.e)

\* x / y
FDiv(x, y) ==
  IF IsNaN(x) \/ IsNaN(y) THEN NaN
  ELSE IF IsInf(x)
  THEN (IF IsInf(y) THEN NaN ELSE Inf(IF x.s = y.s THEN 0 ELSE 1))
  ELSE IF IsInf(y) THEN FZero(IF x.s = y.s THEN 0 ELSE 1)
  ELSE IF IsZero(y)
  THEN (IF IsZero(x) THEN NaN ELSE Inf(IF x.s = y.s THEN 0 ELSE 1))
  ELSE RoundQuot(IF x.s = y.s THEN 0 ELSE 1, x.m, y.m, x.e - y.e)

\* the square root of m * 2^e for e even and m of 2 * 56 bits or more
FSqrtScaled(m, e) ==
  With(BSqrt(m), LAMBDA rt :
    Round53(0,
            BAdd(BShl(rt.s, 1), IF rt.exact THEN <<>> ELSE <<1>>),
            (e \div 2) - 1))

\* std::sqrt
FSqrt(x) ==
  IF IsNaN(x) THEN NaN
  ELSE IF IsZero(x) THEN x
  ELSE IF x.s = 1 THEN NaN
  ELSE IF IsInf(x) THEN x
  ELSE With(2 * (Precision + 3) - BBitLen(x.m) - (x.e % 2), LAMBDA need :
       With((x.e % 2) + (IF need > 0 THEN need + (need % 2) ELSE 0), LAMBDA k :
         FSqrtScaled(BShl(x.m, k), x.e - k)))

\* the remainder of finite nonzero x by y: dm is the quotient and remainder
\* of their mantissas at the common exponent lo, where the mantissa of y is my
FRemainderAligned(x, my, lo, dm) ==
  With(BCmp(BShl(dm.r, 1), my), LAMBDA half :
    IF half > 0 \/ (half = 0 /\ BOdd(dm.q))
    THEN Round53(1 - x.s, BSub(my, dm.r), lo)
    ELSE Round53(x.s, dm.r, lo))

\* std::remainder: x - n * y for the integer n nearest to x / y, ties to even
FRemainder(x, y) ==
  IF IsNaN(x) \/ IsNaN(y) \/ IsInf(x) \/ IsZero(y) THEN NaN
  ELSE IF IsInf(y) \/ IsZero(x) THEN x
  ELSE With(IF x.e < y.e THEN x.e ELSE y.e, LAMBDA lo :
       With(BShl(y.m, y.e - lo), LAMBDA my :
         FRemainderAligned(x, my, lo, BDivMod(BShl(x.m, x.e - lo), my))))

(***************************************************************************)
(* calc.cpp: constants                                                     *)
(***************************************************************************)
max_decimal_digits == 10

\* const double eps = 1e-10
eps == FromDecimal(<<1>>, 10)

\* const double inf = 16331239353195370
inf == FromDecimal(<<1, 6, 3, 3, 1, 2, 3, 9, 3, 5, 3, 1, 9, 5, 3, 7, 0>>, 0)

\* <cmath>: # define M_PI 3.14159265358979323846
M_PI ==
  FromDecimal(<<3, 1, 4, 1, 5, 9, 2, 6, 5, 3, 5, 8, 9, 7, 9, 3, 2, 3, 8, 4, 6>>, 20)

\* <cmath>: INFINITY
INFINITY == Inf(0)

(***************************************************************************)
(* Characters.  line[i] for i = line.size() is the terminating '\0' of     *)
(* std::string; a read beyond that is undefined, and is recorded in the    *)
(* field last of the recognizer's result (the largest index read).         *)
(***************************************************************************)
Digits == <<"0", "1", "2", "3", "4", "5", "6", "7", "8", "9">>

IsDigit(c) == \E k \in 1..Len(Digits) : Digits[k] = c

\* c - '0'
DigitValue(c) == (CHOOSE k \in 1..Len(Digits) : Digits[k] = c) - 1

Nul == "\\0"

Beyond == "beyond the terminator"

At(line, i) ==
  IF i < Len(line) THEN line[i + 1]
  ELSE IF i = Len(line) THEN Nul
  ELSE Beyond

\* std::isspace in the "C" locale, over the characters the model draws
isspace(c) == c \in {" ", "\t"}

(***************************************************************************)
(* calc.cpp: arity                                                         *)
(***************************************************************************)
Ops ==
  {"ERR", "SET", "ADD", "SUB", "MUL", "DIV", "REM", "NEG", "POW", "SQRT",
   "SIN", "COS", "RAD", "DEG", "TAN", "CTN", "ASIN", "ACOS", "ATAN", "ACTN"}

\* arity with a seeded fault: negation takes an argument
arity_NEG_binary(op) ==
  CASE op \in {"ERR", "RAD", "DEG"} -> 0
    [] op \in {"SIN", "COS", "TAN", "CTN", "ASIN", "ACOS", "ATAN", "ACTN",
               "SQRT"} -> 1
    [] op \in {"SET", "ADD", "SUB", "MUL", "DIV", "REM", "POW", "NEG"} -> 2
    [] OTHER -> 0

arity(op) ==
  CASE op \in {"ERR", "RAD", "DEG"} -> 0
    [] op \in {"SIN", "COS", "TAN", "CTN", "ASIN", "ACOS", "ATAN", "ACTN",
               "NEG", "SQRT"} -> 1
    [] op \in {"SET", "ADD", "SUB", "MUL", "DIV", "REM", "POW"} -> 2
    [] OTHER -> 0

(***************************************************************************)
(* calc.cpp: parse_op.  Every operator below takes the cursor i as it is   *)
(* after the reads made so far and returns the operation, the cursor, the  *)
(* diagnostics written to std::cerr and the largest index read.            *)
(***************************************************************************)
\* rollback with a seeded fault: the cursor is rewound by one too few
rollback_short(line, i, n) ==
  [op   |-> "ERR",
   i    |-> i - (n - 1),
   err  |-> <<[msg |-> "Unknown operation ", line |-> line]>>,
   last |-> i - 1]

\* the lambda rollback of parse_op, called with the cursor at i
rollback(line, i, n) ==
  [op   |-> "ERR",
   i    |-> i - n,
   err  |-> <<[msg |-> "Unknown operation ", line |-> line]>>,
   last |-> i - 1]

\* return Op::X with the cursor at i
Found(op, i) == [op |-> op, i |-> i, err |-> <<>>, last |-> i - 1]

\* case 'A': the cursor is at i
parse_op_A(line, i) ==
  CASE At(line, i) = "C" ->
         (CASE At(line, i + 1) = "O" ->
                 (CASE At(line, i + 2) = "S" -> Found("ACOS", i + 3)
                    [] OTHER -> rollback(line, i + 3, 4))
            [] At(line, i + 1) = "T" ->
                 (CASE At(line, i + 2) = "N" -> Found("ACTN", i + 3)
                    [] OTHER -> rollback(line, i + 3, 4))
            [] OTHER -> rollback(line, i + 2, 3))
    [] At(line, i) = "S" ->
         (CASE At(line, i + 1) = "I" ->
                 (CASE At(line, i + 2) = "N" -> Found("ASIN", i + 3)
                    [] OTHER -> rollback(line, i + 3, 4))
            [] OTHER -> rollback(line, i + 2, 3))
    [] At(line, i) = "T" ->
         (CASE At(line, i + 1) = "A" ->
                 (CASE At(line, i + 2) = "N" -> Found("ATAN", i + 3)
                    [] OTHER -> rollback(line, i + 3, 4))
            [] OTHER -> rollback(line, i + 2, 3))
    [] OTHER -> rollback(line, i + 1, 2)

\* case 'S' with a seeded fault: SI resolves to SIN whatever follows
parse_op_S_loose(line, i) ==
  CASE At(line, i) = "Q" ->
         (CASE At(line, i + 1) = "R" ->
                 (CASE At(line, i + 2) = "T" -> Found("SQRT", i + 3)
                    [] OTHER -> rollback(line, i + 3, 4))
            [] OTHER -> rollback(line, i + 2, 3))
    [] At(line, i) = "I" -> Found("SIN", i + 2)
    [] OTHER -> rollback(line, i + 1, 2)

\* case 'S'
parse_op_S(line, i) ==
  CASE At(line, i) = "Q" ->
         (CASE At(line, i + 1) = "R" ->
                 (CASE At(line, i + 2) = "T" -> Found("SQRT", i + 3)
                    [] OTHER -> rollback(line, i + 3, 4))
            [] OTHER -> rollback(line, i + 2, 3))
    [] At(line, i) = "I" ->
         (CASE At(line, i + 1) = "N" -> Found("SIN", i + 2)
            [] OTHER -> rollback(line, i + 2, 3))
    [] OTHER -> rollback(line, i + 1, 2)

\* case 'C'
parse_op_C(line, i) ==
  CASE At(line, i) = "O" ->
         (CASE At(line, i + 1) = "S" -> Found("COS", i + 2)
            [] OTHER -> rollback(line, i + 2, 3))
    [] At(line, i) = "T" ->
         (CASE At(line, i + 1) = "N" -> Found("CTN", i + 2)
            [] OTHER -> rollback(line, i + 2, 3))
    [] OTHER -> rollback(line, i + 1, 2)

\* case 'R'
parse_op_R(line, i) ==
  CASE At(line, i) = "A" ->
         (CASE At(line, i + 1) = "D" -> Found("RAD", i + 2)
            [] OTHER -> rollback(line, i + 2, 3))
    [] OTHER -> rollback(line, i + 1, 2)

\* case 'D'
parse_op_D(line, i) ==
  CASE At(line, i) = "E" ->
         (CASE At(line, i + 1) = "G" -> Found("DEG", i + 2)
            [] OTHER -> rollback(line, i + 2, 3))
    [] OTHER -> rollback(line, i + 1, 2)

\* case 'T'
parse_op_T(line, i) ==
  CASE At(line, i) = "A" ->
         (CASE At(line, i + 1) = "N" -> Found("TAN", i + 2)
            [] OTHER -> rollback(line, i + 2, 3))
    [] OTHER -> rollback(line, i + 1, 2)

\* case '0' ... '9': --i, return Op::SET
parse_op_digit(line, i) ==
  [op |-> "SET", i |-> i - 1, err |-> <<>>, last |-> i - 1]

\* switch (line[i++]), for the character c read and the cursor i after it
parse_op_switch(line, c, i) ==
  CASE IsDigit(c) -> parse_op_digit(line, i)
    [] c = "+" -> Found("ADD", i)
    [] c = "-" -> Found("SUB", i)
    [] c = "*" -> Found("MUL", i)
    [] c = "/" -> Found("DIV", i)
    [] c = "%" -> Found("REM", i)
    [] c = "_" -> Found("NEG", i)
    [] c = "^" -> Found("POW", i)
    [] c = "A" -> parse_op_A(line, i)
    [] c = "S" -> parse_op_S(line, i)
    [] c = "C" -> parse_op_C(line, i)
    [] c = "R" -> parse_op_R(line, i)
    [] c = "D" -> parse_op_D(line, i)
    [] c = "T" -> parse_op_T(line, i)
    [] OTHER -> rollback(line, i, 1)

parse_op(line, i) == parse_op_switch(line, At(line, i), i + 1)

(***************************************************************************)
(* calc.cpp: skip_ws, parse_arg                                            *)
(***************************************************************************)
RECURSIVE skip_ws(_, _)
skip_ws(line, i) ==
  IF i < Len(line) /\ isspace(line[i + 1]) THEN skip_ws(line, i + 1) ELSE i

\* the locals of parse_arg before the loop
parse_arg_init(i) ==
  [i        |-> i,
   res      |-> FZero(0),
   count    |-> 0,
   good     |-> TRUE,
   integer  |-> TRUE,
   fraction |-> One]

\* case '0' ... '9' of the loop of parse_arg, for the digit's value d
parse_arg_digit(st, d) ==
  IF st.integer
  THEN [st EXCEPT !.res   = FAdd(FMul(st.res, FromInt(10)), d),
                  !.i     = st.i + 1,
                  !.count = st.count + 1]
  ELSE With(FDiv(st.fraction, FromInt(10)), LAMBDA f :
         [st EXCEPT !.fraction = f,
                    !.res      = FAdd(st.res, FMul(d, f)),
                    !.i        = st.i + 1,
                    !.count    = st.count + 1])

\* the body of the loop of parse_arg: the switch on line[i], the character c
parse_arg_body(st, c) ==
  CASE IsDigit(c) -> parse_arg_digit(st, FromInt(DigitValue(c)))
    [] c = "." -> [st EXCEPT !.integer = FALSE, !.i = st.i + 1]
    [] OTHER -> [st EXCEPT !.good = FALSE]

\* the loop condition with a seeded fault: no digit budget
parse_arg_continues_unbounded(line, st) == st.good /\ st.i < Len(line)

\* while (good && i < line.size() && count < max_decimal_digits)
parse_arg_continues(line, st) ==
  st.good /\ st.i < Len(line) /\ st.count < max_decimal_digits

RECURSIVE parse_arg_loop(_, _)
parse_arg_loop(line, st) ==
  IF parse_arg_continues(line, st)
  THEN With(parse_arg_body(st, line[st.i + 1]),
            LAMBDA nxt : parse_arg_loop(line, nxt))
  ELSE st

\* what parse_arg returns and writes when its loop ends in st
parse_arg_end(line, st) ==
  [res   |-> st.res,
   i     |-> st.i,
   count |-> st.count,
   err   |-> IF st.i < Len(line)
             THEN <<[msg    |-> "Argument isn't fully parsed, suffix left: ",
                     suffix |-> SubSeq(line, st.i + 1, Len(line))]>>
             ELSE <<>>]

\* parse_arg with a seeded fault: a text with a suffix left parses as 0
parse_arg_discards(line, i) ==
  With(parse_arg_end(line, parse_arg_loop(line, parse_arg_init(i))),
       LAMBDA a : IF a.err = <<>> THEN a ELSE [a EXCEPT !.res = FZero(0)])

parse_arg(line, i) == parse_arg_end(line, parse_arg_loop(line, parse_arg_init(i)))

(***************************************************************************)
(* <cmath>: sin, cos, tan, asin, acos, atan, pow.  Where C (Annex F) fixes *)
(* the result it is computed; everywhere else the n-th value supplied by   *)
(* the environment is returned, and the call counts as one use of it.      *)
(***************************************************************************)
Supplied(libm, n) == IF n <= Len(libm) THEN libm[n] ELSE NaN

Exact(v) == [val |-> v, used |-> 0]

LibmCall(f, x, libm, n) ==
  IF IsNaN(x) THEN Exact(NaN)
  ELSE IF IsZero(x) /\ f \in {"sin", "tan", "asin", "atan"} THEN Exact(x)
  ELSE IF IsZero(x) /\ f = "cos" THEN Exact(One)
  ELSE IF IsInf(x) /\ f \in {"sin", "cos", "tan"} THEN Exact(NaN)
  ELSE IF f = "acos" /\ x = One THEN Exact(FZero(0))
  ELSE [val |-> Supplied(libm, n), used |-> 1]

\* std::pow(x, y)
LibmPow(x, y, libm, n) ==
  IF IsZero(y) \/ x = One THEN Exact(One)
  ELSE IF IsNaN(x) \/ IsNaN(y) THEN Exact(NaN)
  ELSE [val |-> Supplied(libm, n), used |-> 1]

(***************************************************************************)
(* calc.cpp: ctn, actn, to_radians, to_degrees                             *)
(***************************************************************************)
\* 1 / tan(current)
ctn(current, libm, n) ==
  With(LibmCall("tan", current, libm, n),
       LAMBDA t : [val |-> FDiv(FromInt(1), t.val), used |-> t.used])

actn(current, libm, n) ==
  With(LibmCall("atan", FDiv(FromInt(1), current), libm, n), LAMBDA a :
    [val  |-> IF FLt(a.val, FZero(0)) THEN FAdd(a.val, M_PI) ELSE a.val,
     used |-> a.used])

to_radians(angle, rad_on) ==
  IF rad_on THEN angle ELSE FMul(FDiv(angle, FromInt(180)), M_PI)

to_degrees(angle, rad_on) ==
  IF rad_on THEN angle ELSE FDiv(FMul(angle, FromInt(180)), M_PI)

(***************************************************************************)
(* calc.cpp: nullary, unary, binary.  unary and binary return the value,   *)
(* the diagnostics written to std::cerr and the number of environment      *)
(* values used.                                                            *)
(***************************************************************************)
\* nullary with a seeded fault: the error tag clears the accumulator
nullary_ERR_clears(current, op, rad_on) ==
  CASE op = "ERR" -> [val |-> FZero(0), rad_on |-> rad_on]
    [] op = "RAD" -> [val |-> current, rad_on |-> TRUE]
    [] op = "DEG" -> [val |-> current, rad_on |-> FALSE]
    [] OTHER -> [val |-> current, rad_on |-> rad_on]

\* nullary with a seeded fault: RAD flips the mode instead of setting it
nullary_RAD_flips(current, op, rad_on) ==
  CASE op = "ERR" -> [val |-> current, rad_on |-> rad_on]
    [] op = "RAD" -> [val |-> current, rad_on |-> ~rad_on]
    [] op = "DEG" -> [val |-> current, rad_on |-> FALSE]
    [] OTHER -> [val |-> current, rad_on |-> rad_on]

nullary(current, op, rad_on) ==
  CASE op = "ERR" -> [val |-> current, rad_on |-> rad_on]
    [] op = "RAD" -> [val |-> current, rad_on |-> TRUE]
    [] op = "DEG" -> [val |-> current, rad_on |-> FALSE]
    [] OTHER -> [val |-> current, rad_on |-> rad_on]

Value(v, used) == [val |-> v, err |-> <<>>, used |-> used]

\* the result of a libm call as the result of the operation
Returned(r) == Value(r.val, r.used)

BadArgument(name, current, v) ==
  [val  |-> v,
   err  |-> <<[msg |-> "Bad argument for " \o name \o ": ", value |-> current]>>,
   used |-> 0]

unary_SQRT(current) ==
  IF FGt(current, FZero(0)) THEN Value(FSqrt(current), 0)
  ELSE BadArgument("SQRT", current, current)

\* case Op::TAN, for the angle x in radians
unary_TAN(x, libm) ==
  With(LibmCall("cos", x, libm, 1), LAMBDA c :
    IF FGt(FAbs(c.val), eps)
    THEN With(LibmCall("tan", x, libm, 1 + c.used),
              LAMBDA t : Value(t.val, c.used + t.used))
    ELSE Value(inf, c.used))

\* case Op::CTN, for the angle x in radians
unary_CTN(x, libm) ==
  With(LibmCall("sin", x, libm, 1), LAMBDA s :
    IF FGt(FAbs(s.val), eps)
    THEN With(ctn(x, libm, 1 + s.used),
              LAMBDA t : Value(t.val, s.used + t.used))
    ELSE Value(INFINITY, s.used))

\* the value an inverse function returns for the angle a.val in radians
Angle(a, rad_on) == Value(to_degrees(a.val, rad_on), a.used)

unary_ASIN(current, rad_on, libm) ==
  IF FLe(FAbs(current), FromInt(1))
  THEN Angle(LibmCall("asin", current, libm, 1), rad_on)
  ELSE BadArgument("ASIN", current, INFINITY)

unary_ACOS(current, rad_on, libm) ==
  IF FLe(FAbs(current), FromInt(1))
  THEN Angle(LibmCall("acos", current, libm, 1), rad_on)
  ELSE BadArgument("ACOS", current, current)

unary_ATAN(current, rad_on, libm) ==
  IF FLt(FAbs(current), FDiv(M_PI, FromInt(2)))
  THEN Angle(LibmCall("atan", current, libm, 1), rad_on)
  ELSE BadArgument("ATAN", current, current)

unary_ACTN(current, rad_on, libm) ==
  IF FLt(FZero(0), FAbs(current)) /\ FLt(FAbs(current), M_PI)
  THEN Angle(actn(current, libm, 1), rad_on)
  ELSE BadArgument("ACTN", current, current)

unary(current, op, rad_on, libm) ==
  CASE op = "NEG"  -> Value(FNeg(current), 0)
    [] op = "SQRT" -> unary_SQRT(current)
    [] op = "SIN"  -> Returned(LibmCall("sin", to_radians(current, rad_on), libm, 1))
    [] op = "COS"  -> Returned(LibmCall("cos", to_radians(current, rad_on), libm, 1))
    [] op = "TAN"  -> unary_TAN(to_radians(current, rad_on), libm)
    [] op = "CTN"  -> unary_CTN(to_radians(current, rad_on), libm)
    [] op = "ASIN" -> unary_ASIN(current, rad_on, libm)
    [] op = "ACOS" -> unary_ACOS(current, rad_on, libm)
    [] op = "ATAN" -> unary_ATAN(current, rad_on, libm)
    [] op = "ACTN" -> unary_ACTN(current, rad_on, libm)
    [] OTHER -> Value(current, 0)

BadRight(what, left, right) ==
  [val  |-> left,
   err  |-> <<[msg |-> "Bad right argument for " \o what \o ": ",
               value |-> right]>>,
   used |-> 0]

\* case Op::DIV with a seeded fault: the quotient is returned with the diagnostic
binary_DIV_divides(left, right) ==
  IF FNe(right, FZero(0)) THEN Value(FDiv(left, right), 0)
  ELSE [BadRight("division", left, right) EXCEPT !.val = FDiv(left, right)]

binary_DIV(left, right) ==
  IF FNe(right, FZero(0)) THEN Value(FDiv(left, right), 0)
  ELSE BadRight("division", left, right)

binary_REM(left, right) ==
  IF FNe(right, FZero(0)) THEN Value(FRemainder(left, right), 0)
  ELSE BadRight("remainder", left, right)

binary(op, left, right, libm) ==
  CASE op = "SET" -> Value(right, 0)
    [] op = "ADD" -> Value(FAdd(left, right), 0)
    [] op = "SUB" -> Value(FSub(left, right), 0)
    [] op = "MUL" -> Value(FMul(left, right), 0)
    [] op = "DIV" -> binary_DIV(left, right)
    [] op = "REM" -> binary_REM(left, right)
    [] op = "POW" -> Returned(LibmPow(left, right, libm, 1))
    [] OTHER -> Value(left, 0)

(***************************************************************************)
(* calc.cpp: process_line.  The result holds the returned value, rad_on    *)
(* as the call leaves it, what was written to std::cerr, the final cursor, *)
(* the largest index the recognizer read, the operation, whether parse_arg *)
(* was called and how many environment values were used.                   *)
(***************************************************************************)
\* case 0: return nullary(current, op, rad_on), which returned r
process_line_0(p, r) ==
  [current |-> r.val, rad_on |-> r.rad_on, err |-> p.err,
   i |-> p.i, last |-> p.last, op |-> p.op, parsed |-> FALSE, used |-> 0]

\* case 1: return unary(current, op, rad_on), which returned r
process_line_1(p, rad_on, r) ==
  [current |-> r.val, rad_on |-> rad_on, err |-> p.err \o r.err,
   i |-> p.i, last |-> p.last, op |-> p.op, parsed |-> FALSE, used |-> r.used]

\* case 2: skip_ws, parse_arg, which returned a, and
\* return binary(op, current, arg)
process_line_2(p, current, rad_on, libm, a) ==
  With(binary(p.op, current, a.res, libm), LAMBDA r :
    [current |-> r.val, rad_on |-> rad_on, err |-> p.err \o a.err \o r.err,
     i |-> a.i, last |-> p.last, op |-> p.op, parsed |-> TRUE, used |-> r.used])

\* switch (arity(op)), for the result p of parse_op
process_line_switch(current, rad_on, line, libm, p) ==
  CASE arity(p.op) = 0 -> process_line_0(p, nullary(current, p.op, rad_on))
    [] arity(p.op) = 1 ->
         process_line_1(p, rad_on, unary(current, p.op, rad_on, libm))
    [] arity(p.op) = 2 ->
         process_line_2(p, current, rad_on, libm,
                        parse_arg(line, skip_ws(line, p.i)))
    [] OTHER ->
         [current |-> current, rad_on |-> rad_on, err |-> p.err,
          i |-> p.i, last |-> p.last, op |-> p.op, parsed |-> FALSE, used |-> 0]

process_line(current, rad_on, line, libm) ==
  process_line_switch(current, rad_on, line, libm, parse_op(line, 0))

(***************************************************************************)
(* main.cpp: the read-eval-print loop.  current and rad_on are the locals  *)
(* of main; pc is "loop" while std::getline may still deliver a line and   *)
(* "done" after it has failed.  nread counts the lines read, toggle is the *)
(* operation of the most recent line recognized as RAD or DEG ("none"      *)
(* before the first), and last_call holds the latest call of process_line: *)
(* its arguments, the environment's values and its result.  text and       *)
(* result are the input and the outcome of the parsers run on their own.   *)
(***************************************************************************)
VARIABLES current, rad_on, pc, nread, toggle, last_call, text, result

vars == <<current, rad_on, pc, nread, toggle, last_call, text, result>>

\* the lines std::getline delivers
InputLines ==
  {<<>>,
   <<"X", "Y", "Z">>,
   <<"A", "S", "X">>,
   <<"S", "I">>,
   <<"s", "i", "n">>,
   <<" ", "S", "I", "N">>,
   <<"R", "A", "D">>,
   <<"D", "E", "G">>,
   <<"R", "A", "D", " ", "5">>,
   <<"D", "E", "G", " ", "x">>,
   <<"5">>,
   <<"0", ".", "3">>,
   <<"1", "2", ".", "5">>,
   <<"1", "2", "3", "4", "5", "6", "7", "8", "9", "0">>,
   <<"1", "2", "3", "4", "5", "6", "7", "8", "9", "0", "1">>,
   <<"1", ".", "2", ".", "3">>,
   <<"2">>,
   <<"4">>,
   <<"5", "a", "b", "c">>,
   <<"5", " ">>,
   <<"+", "3">>,
   <<"+", " ", "3">>,
   <<"+", "3", "x">>,
   <<"-", "1">>,
   <<"*", "2">>,
   <<"*", "x">>,
   <<"*", "0", ".", "7">>,
   <<"/", "0">>,
   <<"/">>,
   <<"/", "x">>,
   <<"/", "3">>,
   <<"%", "0">>,
   <<"%">>,
   <<"%", "3">>,
   <<"^", "x">>,
   <<"^", "2">>,
   <<"_">>,
   <<"_", "7">>,
   <<"S", "Q", "R", "T">>,
   <<"S", "Q", "R", "T", "9">>,
   <<"S", "I", "N">>,
   <<"S", "I", "N", "x">>,
   <<"C", "O", "S">>,
   <<"T", "A", "N">>,
   <<"C", "T", "N">>,
   <<"A", "S", "I", "N">>,
   <<"A", "C", "O", "S">>,
   <<"A", "T", "A", "N">>,
   <<"A", "C", "T", "N">>}

MaxLines == 2

\* the values the environment returns from a libm call
LibmValues == {FZero(0), FromDecimal(<<5>>, 1), FromInt(-1), NaN}

\* the calls process_line(cur, rad, line) the environment allows: libm
\* grows by one value at a time until the call uses no value beyond it
RECURSIVE Calls(_, _, _, _)
Calls(cur, rad, line, libm) ==
  With(process_line(cur, rad, line, libm), LAMBDA r :
    IF r.used <= Len(libm)
    THEN {[line |-> line, current |-> cur, rad_on |-> rad, libm |-> libm,
           ret |-> r]}
    ELSE UNION {Calls(cur, rad, line, Append(libm, v)) : v \in LibmValues})

Init ==
  /\ current = FZero(0)
  /\ rad_on = FALSE
  /\ pc = "loop"
  /\ nread = 0
  /\ toggle = "none"
  /\ last_call = <<>>
  /\ text = <<>>
  /\ result = <<>>

\* one iteration of the loop of main: getline, process_line, print
ReadLine ==
  /\ pc = "loop"
  /\ nread < MaxLines
  /\ \E line \in InputLines :
       \E call \in Calls(current, rad_on, line, <<>>) :
         /\ current' = call.ret.current
         /\ rad_on' = call.ret.rad_on
         /\ toggle' = IF call.ret.op \in {"RAD", "DEG"}
                      THEN call.ret.op ELSE toggle
         /\ last_call' = <<call>>
  /\ nread' = nread + 1
  /\ UNCHANGED <<pc, text, result>>

\* std::getline fails: main returns
Eof ==
  /\ pc = "loop"
  /\ pc' = "done"
  /\ UNCHANGED <<current, rad_on, nread, toggle, last_call, text, result>>

Next == ReadLine \/ Eof

Spec == Init /\ [][Next]_vars

(***************************************************************************)
(* parse_op on its own, followed as in process_line by skip_ws and         *)
(* parse_arg when the operation has arity 2: over every line of at most    *)
(* MaxOpLen characters whose first character is any character of           *)
(* FirstChars and whose other characters are characters of RestChars.      *)
(***************************************************************************)
Letters == {"A", "C", "D", "E", "G", "I", "N", "O", "Q", "R", "S", "T"}

Symbols == {"+", "-", "*", "/", "%", "_", "^"}

FirstChars ==
  Letters \cup Symbols \cup {Digits[k] : k \in 1..Len(Digits)}
    \cup {"x", "s", " ", "."}

RestChars == Letters \cup {"5"}

MaxOpLen == 4

SeqsUpTo(chars, n) == UNION {[1..k -> chars] : k \in 0..n}

OpLines ==
  {<<>>} \cup {<<c>> \o r : c \in FirstChars, r \in SeqsUpTo(RestChars, MaxOpLen - 1)}

InitOp ==
  /\ text \in OpLines
  /\ result = <<>>
  /\ current = FZero(0)
  /\ rad_on = FALSE
  /\ pc = "loop"
  /\ nread = 0
  /\ toggle = "none"
  /\ last_call = <<>>

Recognize ==
  /\ result = <<>>
  /\ result' = <<parse_op(text, 0)>>
  /\ UNCHANGED <<current, rad_on, pc, nread, toggle, last_call, text>>

Argument ==
  /\ Len(result) = 1
  /\ arity(result[1].op) = 2
  /\ result' = Append(result, parse_arg(text, skip_ws(text, result[1].i)))
  /\ UNCHANGED <<current, rad_on, pc, nread, toggle, last_call, text>>

NextOp == Recognize \/ Argument

SpecOp == InitOp /\ [][NextOp]_vars

(***************************************************************************)
(* skip_ws and parse_arg on their own, from cursor 0: over every text made *)
(* of at most MaxAffix characters of ArgChars, a run of digits, and at     *)
(* most MaxAffix more characters of ArgChars.  The runs are as long as the *)
(* digit budget or a little shorter, or empty.                             *)
(***************************************************************************)
ArgChars == {"7", ".", "x", " "}

MaxAffix == 2

Run(k) == [j \in 1..k |-> "1"]

RunLengths == {0, max_decimal_digits - 2, max_decimal_digits - 1, max_decimal_digits}

ArgTexts ==
  {pre \o Run(k) \o post : pre \in SeqsUpTo(ArgChars, MaxAffix),
                           k \in RunLengths,
                           post \in SeqsUpTo(ArgChars, MaxAffix)}

InitArg ==
  /\ text \in ArgTexts
  /\ result = <<>>
  /\ current = FZero(0)
  /\ rad_on = FALSE
  /\ pc = "loop"
  /\ nread = 0
  /\ toggle = "none"
  /\ last_call = <<>>

ParseArgument ==
  /\ result = <<>>
  /\ result' = <<parse_arg(text, skip_ws(text, 0))>>
  /\ UNCHANGED <<current, rad_on, pc, nread, toggle, last_call, text>>

NextArg == ParseArgument

SpecArg == InitArg /\ [][NextArg]_vars

(***************************************************************************)
(* What the properties below read: the latest call of process_line, the    *)
(* kinds of diagnostic it wrote, and the dictionary of symbols and         *)
(* mnemonics.                                                              *)
(***************************************************************************)
Called == last_call # <<>>

Call == last_call[1]

UnknownOperation(e) == e.msg = "Unknown operation "

SuffixLeft(e) == e.msg = "Argument isn't fully parsed, suffix left: "

DomainViolation(e) == ~UnknownOperation(e) /\ ~SuffixLeft(e)

HasUnknownOperation(err) == \E k \in 1..Len(err) : UnknownOperation(err[k])

HasSuffixLeft(err) == \E k \in 1..Len(err) : SuffixLeft(err[k])

HasDomainViolation(err) == \E k \in 1..Len(err) : DomainViolation(err[k])

Dictionary ==
  {[token |-> <<"+">>, op |-> "ADD"],
   [token |-> <<"-">>, op |-> "SUB"],
   [token |-> <<"*">>, op |-> "MUL"],
   [token |-> <<"/">>, op |-> "DIV"],
   [token |-> <<"%">>, op |-> "REM"],
   [token |-> <<"_">>, op |-> "NEG"],
   [token |-> <<"^">>, op |-> "POW"],
   [token |-> <<"R", "A", "D">>, op |-> "RAD"],
   [token |-> <<"D", "E", "G">>, op |-> "DEG"],
   [token |-> <<"S", "Q", "R", "T">>, op |-> "SQRT"],
   [token |-> <<"S", "I", "N">>, op |-> "SIN"],
   [token |-> <<"C", "O", "S">>, op |-> "COS"],
   [token |-> <<"T", "A", "N">>, op |-> "TAN"],
   [token |-> <<"C", "T", "N">>, op |-> "CTN"],
   [token |-> <<"A", "S", "I", "N">>, op |-> "ASIN"],
   [token |-> <<"A", "C", "O", "S">>, op |-> "ACOS"],
   [token |-> <<"A", "T", "A", "N">>, op |-> "ATAN"],
   [token |-> <<"A", "C", "T", "N">>, op |-> "ACTN"]}

\* line begins at index 0 with exactly the characters of token
BeginsWith(line, token) ==
  Len(token) <= Len(line) /\ SubSeq(line, 1, Len(token)) = token

Matches(line) == {d \in Dictionary : BeginsWith(line, d.token)}

LeadingDigit(line) == line # <<>> /\ IsDigit(line[1])

\* the operation the dictionary gives a line
Lookup(line) ==
  IF LeadingDigit(line) THEN "SET"
  ELSE IF Matches(line) = {} THEN "ERR"
  ELSE (CHOOSE d \in Matches(line) : TRUE).op

\* the length of the token of a dictionary operation
TokenLen(op) == Len((CHOOSE d \in Dictionary : d.op = op).token)

NullaryOps == {"RAD", "DEG"}

UnaryOps ==
  {"NEG", "SQRT", "SIN", "COS", "TAN", "CTN", "ASIN", "ACOS", "ATAN", "ACTN"}

BinaryOps == {"SET", "ADD", "SUB", "MUL", "DIV", "REM", "POW"}

\* the value parse_arg returns for the argument of a line of arity 2
ParsedArgument(line) == parse_arg(line, skip_ws(line, parse_op(line, 0).i)).res

\* the number of digits among the characters of t
DigitCount(t) == Len(SelectSeq(t, IsDigit))

(***************************************************************************)
(* C1                                                                      *)
(***************************************************************************)
\* C1: whenever process_line is called with a line that is empty or begins
\* with neither a digit nor a symbol or mnemonic of the dictionary, it returns
\* the accumulator it was given, leaves the angle mode as it was and writes
\* exactly one diagnostic, whatever the accumulator and the mode are.
C1_RecognizerFailureIsNoOp ==
  Called /\ ~LeadingDigit(Call.line) /\ Matches(Call.line) = {} =>
    /\ Call.ret.current = Call.current
    /\ Call.ret.rad_on = Call.rad_on
    /\ Len(Call.ret.err) = 1
    /\ UnknownOperation(Call.ret.err[1])

\* an unknown token has been read with a nonzero accumulator
C1_Witness ==
  /\ Called
  /\ Call.line = <<"X", "Y", "Z">>
  /\ Call.current = FromInt(5)
  /\ Call.ret.current = FromInt(5)
  /\ Len(Call.ret.err) = 1

(***************************************************************************)
(* C2                                                                      *)
(***************************************************************************)
\* C2: in every state reached from (0, degrees) the mode is radians exactly
\* when the most recent line recognized as RAD or DEG was RAD; a line
\* recognized as RAD leaves radians, one recognized as DEG leaves degrees,
\* both leave the accumulator unchanged, the same line once more changes
\* nothing, and every other line leaves the mode as it was.
C2_AngleModeTracksLastToggle ==
  /\ rad_on = (toggle = "RAD")
  /\ Called =>
       /\ Lookup(Call.line) = "RAD" =>
            Call.ret.rad_on /\ Call.ret.current = Call.current
       /\ Lookup(Call.line) = "DEG" =>
            ~Call.ret.rad_on /\ Call.ret.current = Call.current
       /\ Lookup(Call.line) \in NullaryOps =>
            With(process_line(Call.ret.current, Call.ret.rad_on, Call.line, <<>>),
                 LAMBDA again : /\ again.current = Call.ret.current
                                /\ again.rad_on = Call.ret.rad_on)
       /\ Lookup(Call.line) \notin NullaryOps => Call.ret.rad_on = Call.rad_on

\* radians were switched on and a domain-violating line has been read since
C2_Witness ==
  /\ Called
  /\ toggle = "RAD"
  /\ rad_on
  /\ Call.line = <<"S", "Q", "R", "T">>
  /\ HasDomainViolation(Call.ret.err)

(***************************************************************************)
(* C3                                                                      *)
(***************************************************************************)
\* the whole line is a decimal literal that starts and ends with a digit, with
\* at most max_decimal_digits digits and at most one '.'
IsLiteral(line) ==
  /\ line # <<>>
  /\ IsDigit(line[1])
  /\ IsDigit(line[Len(line)])
  /\ \A k \in 1..Len(line) : IsDigit(line[k]) \/ line[k] = "."
  /\ Cardinality({k \in 1..Len(line) : line[k] = "."}) <= 1
  /\ DigitCount(line) <= max_decimal_digits

\* the digits of a literal, most significant first
LiteralDigits(line) ==
  [k \in 1..DigitCount(line) |-> DigitValue(SelectSeq(line, IsDigit)[k])]

\* the number of digits of a literal after its '.'
FractionDigits(line) ==
  IF \E k \in 1..Len(line) : line[k] = "."
  THEN Len(line) - (CHOOSE k \in 1..Len(line) : line[k] = ".")
  ELSE 0

\* C3: whenever process_line is called with a line that is a decimal literal
\* of at most 10 digits and at most one '.', it returns the double nearest to
\* the decimal value the literal denotes, whatever the accumulator and the
\* mode were, and writes no diagnostic.
C3_LiteralIsExact ==
  Called /\ IsLiteral(Call.line) =>
    /\ Call.ret.current =
         FromDecimal(LiteralDigits(Call.line), FractionDigits(Call.line))
    /\ Call.ret.err = <<>>

\* a literal with a fraction has been read over a nonzero accumulator
C3_Witness ==
  /\ Called
  /\ Call.line = <<"0", ".", "3">>
  /\ Call.current # FZero(0)
  /\ Call.ret.err = <<>>

(***************************************************************************)
(* C4                                                                      *)
(***************************************************************************)
\* |x| >= y
AtLeast(x, y) == FLe(y, FAbs(x))

\* the cases in which an operation is outside its domain
OutsideDomain(op, cur, line) ==
  \/ op = "SQRT" /\ FLe(cur, FZero(0))
  \/ op \in {"ASIN", "ACOS"} /\ FGt(FAbs(cur), One)
  \/ op = "ATAN" /\ AtLeast(cur, FDiv(M_PI, FromInt(2)))
  \/ op = "ACTN" /\ (IsZero(cur) \/ AtLeast(cur, M_PI))
  \/ op \in {"DIV", "REM"} /\ IsZero(ParsedArgument(line))

\* C4: whenever a call of process_line writes a domain-violation diagnostic,
\* it returns the accumulator it was given, except for ASIN, which returns
\* infinity; and it does write one for SQRT with current <= 0, ASIN and ACOS
\* with |current| > 1, ATAN with |current| >= pi/2, ACTN with current = 0 or
\* |current| >= pi, and '/' and '%' with an argument parsed as 0.
C4_DomainViolationKeepsAccumulator ==
  Called =>
    /\ HasDomainViolation(Call.ret.err) =>
         Call.ret.current =
           IF Lookup(Call.line) = "ASIN" THEN INFINITY ELSE Call.current
    /\ OutsideDomain(Lookup(Call.line), Call.current, Call.line) =>
         HasDomainViolation(Call.ret.err)

\* a division by a missing argument has left a nonzero accumulator as it was
C4_Witness ==
  /\ Called
  /\ Call.line = <<"/">>
  /\ Call.current = FromInt(5)
  /\ HasDomainViolation(Call.ret.err)
  /\ Call.ret.current = FromInt(5)

(***************************************************************************)
(* C5                                                                      *)
(***************************************************************************)
\* C5 as stated: whenever a call of process_line writes an unknown-operation
\* or a suffix-left diagnostic, it returns the accumulator it was given and
\* leaves the mode as it was.
C5_MalformedInputIsNoOp ==
  Called /\ (HasUnknownOperation(Call.ret.err) \/ HasSuffixLeft(Call.ret.err)) =>
    /\ Call.ret.current = Call.current
    /\ Call.ret.rad_on = Call.rad_on

\* the line of the latest call without the suffix its argument parser left
Consumed == SubSeq(Call.line, 1, Call.ret.i)

\* C5 amended: a call that writes an unknown-operation diagnostic returns the
\* accumulator it was given and leaves the mode as it was; a call that writes
\* a suffix-left diagnostic leaves the mode as it was and returns what the
\* line without the suffix returns: the operation is applied to the value
\* parsed so far, with the same domain diagnostics.
C5_SuffixIsDroppedOperationApplied ==
  Called =>
    /\ HasUnknownOperation(Call.ret.err) =>
         /\ Call.ret.current = Call.current
         /\ Call.ret.rad_on = Call.rad_on
    /\ HasSuffixLeft(Call.ret.err) =>
         With(process_line(Call.current, Call.rad_on, Consumed, Call.libm),
              LAMBDA cut : /\ cut.err = SelectSeq(Call.ret.err, DomainViolation)
                           /\ Call.ret.current = cut.current
                           /\ Call.ret.rad_on = Call.rad_on
                           /\ Call.ret.rad_on = cut.rad_on)

\* a literal followed by letters has replaced the accumulator
C5_Witness ==
  /\ Called
  /\ Call.line = <<"5", "a", "b", "c">>
  /\ HasSuffixLeft(Call.ret.err)
  /\ Call.current = FromInt(2)
  /\ Call.ret.current = FromInt(5)

(***************************************************************************)
(* C6                                                                      *)
(***************************************************************************)
\* the cursor of the first character from i on that is a second '.' or
\* neither a digit nor a '.', or the size of the text if there is none
RECURSIVE StopPoint(_, _, _)
StopPoint(t, i, dotted) ==
  IF i >= Len(t) THEN Len(t)
  ELSE IF IsDigit(t[i + 1]) THEN StopPoint(t, i + 1, dotted)
  ELSE IF t[i + 1] = "." /\ ~dotted THEN StopPoint(t, i + 1, TRUE)
  ELSE i

\* where the argument of text starts and where a second '.' or a character
\* that is neither a digit nor a '.' would stop it
ArgStart == skip_ws(text, 0)

ArgStop == StopPoint(text, ArgStart, FALSE)

\* C6: for every argument text whose digits up to that point fit the digit
\* budget, parse_arg leaves the cursor at the second '.' or at the first
\* character that is neither a digit nor a '.', returns the value of the text
\* before that point, and reports the text from that point on as the suffix.
C6_SecondDotStops ==
  result # <<>> /\ DigitCount(SubSeq(text, ArgStart + 1, ArgStop)) <= max_decimal_digits =>
    /\ result[1].i = ArgStop
    /\ result[1].res = parse_arg(SubSeq(text, 1, ArgStop), ArgStart).res
    /\ result[1].err =
         IF ArgStop < Len(text)
         THEN <<[msg    |-> "Argument isn't fully parsed, suffix left: ",
                 suffix |-> SubSeq(text, ArgStop + 1, Len(text))]>>
         ELSE <<>>

\* parse_arg has run on a text with a second '.' and a digit after it
C6_Witness ==
  /\ result # <<>>
  /\ text = <<".", "7", ".", "7">>
  /\ ArgStop = 2

(***************************************************************************)
(* C7                                                                      *)
(***************************************************************************)
\* the characters a character of the suffix is changed to
SuffixChars == ArgChars \cup {"1"}

\* the text with its j-th character changed to ch
Changed(j, ch) == [text EXCEPT ![j] = ch]

\* what parse_arg is sure to do on every text: it counts the digits it
\* consumes and consumes at most max_decimal_digits, its value is the value of
\* the consumed characters, and it names the suffix from the cursor on exactly
\* when the cursor is before the end
ConsumesWithinBudget(r) ==
  /\ r.count = DigitCount(SubSeq(text, ArgStart + 1, r.i))
  /\ r.count <= max_decimal_digits
  /\ r.res = parse_arg(SubSeq(text, 1, r.i), ArgStart).res
  /\ r.err # <<>> <=> r.i < Len(text)
  /\ r.err # <<>> =>
       r.err = <<[msg    |-> "Argument isn't fully parsed, suffix left: ",
                  suffix |-> SubSeq(text, r.i + 1, Len(text))]>>

\* C7 as stated: parse_arg consumes at most 10 digits, its value is the value
\* of the characters before the point where it stopped, changing any character
\* of the unconsumed suffix to any other never changes the value, and the
\* suffix is named exactly when the cursor stopped before the end.
C7_AnySuffixChangeIsIgnored ==
  result # <<>> =>
    /\ ConsumesWithinBudget(result[1])
    /\ \A j \in (result[1].i + 1)..Len(text) : \A ch \in SuffixChars :
         parse_arg(Changed(j, ch), ArgStart).res = result[1].res

\* C7 amended: as stated, except that the character the cursor stopped at may
\* be changed only to a character that is neither a digit nor a '.', unless
\* the digit budget is what stopped the parser; every later character of the
\* suffix may be changed to any character.
C7_SuffixBeyondStopIsIgnored ==
  result # <<>> =>
    /\ ConsumesWithinBudget(result[1])
    /\ \A j \in (result[1].i + 1)..Len(text) : \A ch \in SuffixChars :
         \/ j = result[1].i + 1
              /\ result[1].count < max_decimal_digits
              /\ (IsDigit(ch) \/ ch = ".")
         \/ parse_arg(Changed(j, ch), ArgStart).res = result[1].res

\* the digit budget has stopped parse_arg in front of further digits
C7_Witness ==
  /\ result # <<>>
  /\ result[1].count = max_decimal_digits
  /\ result[1].i + 2 <= Len(text)
  /\ IsDigit(text[result[1].i + 1])
  /\ result[1].err # <<>>

(***************************************************************************)
(* C8                                                                      *)
(***************************************************************************)
\* C8: for every line, parse_op returns the operation of the dictionary entry
\* the line begins with at index 0, SET when the first character is a digit,
\* and the error tag in every other case, so a line that follows a mnemonic
\* for a while and then leaves it resolves to no operation.
C8_RecognizerIsDictionaryLookup ==
  result # <<>> => result[1].op = Lookup(text)

\* a line that leaves the mnemonic ASIN after AS has been rejected
C8_Witness ==
  /\ result # <<>>
  /\ text = <<"A", "S", "5">>
  /\ result[1].op = "ERR"

(***************************************************************************)
(* C9                                                                      *)
(***************************************************************************)
\* C9: a call of process_line runs the argument parser exactly when the line
\* resolves to an operation of arity 2; a line that resolves to RAD, DEG, '_',
\* SQRT or a trigonometric mnemonic returns the accumulator, the mode and the
\* diagnostics that the token alone returns, with the cursor left after the
\* token.
C9_ArgumentParsedIffBinary ==
  Called =>
    /\ Call.ret.parsed <=> Lookup(Call.line) \in BinaryOps
    /\ Lookup(Call.line) \in NullaryOps \cup UnaryOps =>
         With(process_line(Call.current, Call.rad_on,
                           SubSeq(Call.line, 1, TokenLen(Lookup(Call.line))),
                           Call.libm),
              LAMBDA alone : /\ Call.ret.current = alone.current
                             /\ Call.ret.rad_on = alone.rad_on
                             /\ Call.ret.err = alone.err
                             /\ Call.ret.i = TokenLen(Lookup(Call.line)))

\* a negation followed by a digit has negated the accumulator
C9_Witness ==
  /\ Called
  /\ Call.line = <<"_", "7">>
  /\ Call.current = FromInt(5)
  /\ Call.ret.current = FromInt(-5)
  /\ Call.ret.err = <<>>

(***************************************************************************)
(* C10                                                                     *)
(***************************************************************************)
\* C10: for every line parse_op reads no character at an index greater than
\* the size of the line and returns a cursor that is 0 after a failure and
\* after a leading digit and the length of the token after a success; the
\* cursor parse_arg then returns lies between that cursor and the size of the
\* line.
C10_CursorStaysInLine ==
  result # <<>> =>
    /\ result[1].last <= Len(text)
    /\ result[1].i \in 0..Len(text)
    /\ result[1].op \in {"ERR", "SET"} => result[1].i = 0
    /\ result[1].op \notin {"ERR", "SET"} => result[1].i = TokenLen(result[1].op)
    /\ Len(result) = 2 => result[2].i \in result[1].i..Len(text)

\* a line that ends in the middle of a mnemonic has been read up to its
\* terminator and the cursor rewound to 0
C10_Witness ==
  /\ result # <<>>
  /\ text = <<"A", "C">>
  /\ result[1].last = Len(text)
  /\ result[1].op = "ERR"
  /\ result[1].i = 0

====
